---- MODULE Spec2Model ----
(***************************************************************************)
(* Model of scrape_simplified.py: fetch a page, find the first table with  *)
(* a "Simplified" header column that yields values, write them as CSV.     *)
(*                                                                         *)
(* Texts are sequences of tokens (a token is one character or one atomic   *)
(* word).  A cell is the sequence of its text nodes, a row is the pair of  *)
(* its <th> cells and its <td> cells, a table is a sequence of rows and a  *)
(* parsed document is the sequence of its tables.                          *)
(***************************************************************************)
EXTENDS Integers, Sequences, FiniteSets, TLC

\* ------------------------------------------------------------------ bounds
MaxRows == 3
MaxTables == 3
MaxRuns == 2

\* ------------------------------------------------------------ text helpers
Range(s) == {s[i] : i \in 1..Len(s)}

SeqUpTo(S, n) == UNION {[1..k -> S] : k \in 0..n}

Whitespace == {" ", "\n"}

\* str.strip(): drop leading and trailing whitespace
RECURSIVE LStrip(_)
LStrip(s) ==
    IF s = <<>> THEN <<>>
    ELSE IF Head(s) \in Whitespace THEN LStrip(Tail(s)) ELSE s

RECURSIVE RStripWs(_)
RStripWs(s) ==
    IF s = <<>> THEN <<>>
    ELSE IF s[Len(s)] \in Whitespace THEN RStripWs(SubSeq(s, 1, Len(s) - 1)) ELSE s

StrStrip(s) == RStripWs(LStrip(s))

\* sep.join(parts)
RECURSIVE StrJoin(_, _)
StrJoin(parts, sep) ==
    IF parts = <<>> THEN <<>>
    ELSE IF Len(parts) = 1 THEN parts[1]
    ELSE parts[1] \o sep \o StrJoin(Tail(parts), sep)

\* Tag.get_text(sep, strip=True): every text node is stripped, the nodes that
\* become empty are dropped, the rest are joined with sep.
GetText(cell, sep) ==
    StrJoin(SelectSeq([i \in 1..Len(cell) |-> StrStrip(cell[i])],
                      LAMBDA n : n # <<>>), sep)

\* list.index(x), zero-based: the position of the first occurrence
ListIndex(s, x) ==
    (CHOOSE i \in 1..Len(s) : s[i] = x /\ \A j \in 1..(i - 1) : s[j] # x) - 1

Simplified == <<"Simplified">>

\* ------------------------------------------------------ extract_simplified
\* headers of one row: [th.get_text(" ", strip=True) for th in ths]
HeaderLabels(ths) == [i \in 1..Len(ths) |-> GetText(ths[i], <<" ">>)]

\* variant: records the position of the last "Simplified" label of the row
RECURSIVE ScanHeaderLastLabel(_, _)
ScanHeaderLastLabel(table, r) ==
    IF r > Len(table) THEN <<>>
    ELSE IF table[r].ths = <<>> THEN ScanHeaderLastLabel(table, r + 1)
    ELSE IF Simplified \in Range(HeaderLabels(table[r].ths))
         THEN <<[tr |-> r,
                 header_idx |->
                    (CHOOSE i \in 1..Len(table[r].ths) :
                        /\ HeaderLabels(table[r].ths)[i] = Simplified
                        /\ \A j \in (i + 1)..Len(table[r].ths) :
                              HeaderLabels(table[r].ths)[j] # Simplified) - 1]>>
         ELSE ScanHeaderLastLabel(table, r + 1)

\* The header loop of one table, from row r on.  The result is <<>> when
\* header_idx stays None, else <<[tr |-> row of the break, header_idx |-> i]>>.
RECURSIVE ScanHeaderFrom(_, _)
ScanHeaderFrom(table, r) ==
    IF r > Len(table) THEN <<>>
    ELSE IF table[r].ths = <<>> THEN ScanHeaderFrom(table, r + 1)
    ELSE IF Simplified \in Range(HeaderLabels(table[r].ths))
         THEN <<[tr |-> r,
                 header_idx |-> ListIndex(HeaderLabels(table[r].ths), Simplified)]>>
         ELSE ScanHeaderFrom(table, r + 1)

ScanHeader(table) == ScanHeaderFrom(table, 1)

\* variant: appends the text of the cell without testing that it is non-empty
RECURSIVE CollectFromKeepEmpty(_, _, _, _)
CollectFromKeepEmpty(table, header_idx, r, acc) ==
    IF r > Len(table) THEN acc
    ELSE LET tds == table[r].tds IN
         IF tds = <<>> \/ Len(tds) <= header_idx
         THEN CollectFromKeepEmpty(table, header_idx, r + 1, acc)
         ELSE CollectFromKeepEmpty(table, header_idx, r + 1,
                                   Append(acc, GetText(tds[header_idx + 1], <<>>)))

\* The data loop of one table, from row r on, appending to acc.
RECURSIVE CollectFrom(_, _, _, _)
CollectFrom(table, header_idx, r, acc) ==
    IF r > Len(table) THEN acc
    ELSE LET tds == table[r].tds IN
         IF tds = <<>> \/ Len(tds) <= header_idx
         THEN CollectFrom(table, header_idx, r + 1, acc)
         ELSE LET text == GetText(tds[header_idx + 1], <<>>) IN
              IF text # <<>>
              THEN CollectFrom(table, header_idx, r + 1, Append(acc, text))
              ELSE CollectFrom(table, header_idx, r + 1, acc)

CollectColumn(table, header_idx) == CollectFrom(table, header_idx, 1, <<>>)

MsgNoBs4 == "Missing dependency: beautifulsoup4 (bs4). Install with: pip install beautifulsoup4"
MsgNoTable == "Could not find a table with a 'Simplified' header."
MsgNoName == "Could not derive output file name from URL."

\* variant: returns the column of the first table with a header, empty or not
RECURSIVE ExtractFromFirstHeader(_, _, _)
ExtractFromFirstHeader(tables, k, scans) ==
    IF k > Len(tables)
    THEN [status |-> "error", msg |-> MsgNoTable, values |-> <<>>,
          scans |-> scans, table |-> 0]
    ELSE LET scan == ScanHeader(tables[k]) IN
         IF scan = <<>>
         THEN ExtractFromFirstHeader(tables, k + 1, Append(scans, scan))
         ELSE [status |-> "ok", msg |-> "",
               values |-> CollectColumn(tables[k], scan[1].header_idx),
               scans |-> Append(scans, scan), table |-> k]

\* The table loop from table k on; scans collects, per visited table, the
\* outcome of its header loop.
RECURSIVE ExtractFrom(_, _, _)
ExtractFrom(tables, k, scans) ==
    IF k > Len(tables)
    THEN [status |-> "error", msg |-> MsgNoTable, values |-> <<>>,
          scans |-> scans, table |-> 0]
    ELSE LET scan == ScanHeader(tables[k]) IN
         IF scan = <<>>
         THEN ExtractFrom(tables, k + 1, Append(scans, scan))
         ELSE LET simplified == CollectColumn(tables[k], scan[1].header_idx) IN
              IF simplified # <<>>
              THEN [status |-> "ok", msg |-> "", values |-> simplified,
                    scans |-> Append(scans, scan), table |-> k]
              ELSE ExtractFrom(tables, k + 1, Append(scans, scan))

extract_simplified(bs4, tables) ==
    IF ~bs4
    THEN [status |-> "error", msg |-> MsgNoBs4, values |-> <<>>,
          scans |-> <<>>, table |-> 0]
    ELSE ExtractFrom(tables, 1, <<>>)

\* ------------------------------------------------------------ input sets
Cell(text) == <<text>>

ThSimplified == Cell(<<" ", "Simplified", "\n">>)       \* <th> Simplified\n</th>
ThRank == Cell(<<"Rank">>)
ThPinyin == Cell(<<"Pinyin">>)
ThNoted == <<<<"Simplified">>, <<" ">>, <<"1">>>>       \* <th>Simplified<sup> </sup><sup>1</sup></th>

TdOne == Cell(<<"1">>)
TdTwo == Cell(<<"2">>)
TdHanzi == Cell(<<"u7684">>)
TdDe == Cell(<<"d", "e">>)
TdLe == Cell(<<"l", "e">>)
TdNone == <<>>                                          \* <td></td>
TdBlank == Cell(<<" ", "\n">>)
TdNested == <<<<" ", "x", " ">>, <<"y", ",", "z", " ">>>>  \* <td> x <b>y,z </b></td>

Row(ths, tds) == [ths |-> ths, tds |-> tds]

RowSet ==
    { Row(<<>>, <<>>),
      Row(<<ThRank, ThSimplified, ThPinyin>>, <<>>),
      Row(<<ThSimplified>>, <<>>),
      Row(<<ThSimplified, ThSimplified>>, <<>>),
      Row(<<ThRank, ThPinyin>>, <<>>),
      Row(<<ThNoted>>, <<>>),
      Row(<<>>, <<TdOne, TdHanzi, TdDe>>),
      Row(<<>>, <<TdTwo, TdNone, TdLe>>),
      Row(<<>>, <<TdOne>>),
      Row(<<>>, <<TdBlank>>),
      Row(<<>>, <<TdNested, TdHanzi>>),
      Row(<<ThSimplified>>, <<TdHanzi>>),
      Row(<<ThRank>>, <<TdBlank, TdTwo>>) }

TableSet ==
    { <<>>,
      <<Row(<<ThRank, ThPinyin>>, <<>>), Row(<<>>, <<TdOne, TdDe>>)>>,
      <<Row(<<ThSimplified>>, <<>>), Row(<<>>, <<TdBlank>>)>>,
      <<Row(<<ThRank, ThSimplified>>, <<>>), Row(<<>>, <<TdOne>>), Row(<<>>, <<TdTwo, TdNone>>)>>,
      <<Row(<<ThSimplified>>, <<>>), Row(<<>>, <<TdNested>>)>>,
      <<Row(<<ThRank, ThSimplified, ThPinyin>>, <<>>),
        Row(<<>>, <<TdOne, TdHanzi, TdDe>>), Row(<<>>, <<TdTwo, TdNone, TdLe>>)>> }

\* documents of one table with up to MaxRows rows, and documents of up to
\* MaxTables tables
DeepDocs == {<<t>> : t \in SeqUpTo(RowSet, MaxRows)}
WideDocs == SeqUpTo(TableSet, MaxTables)
Docs == DeepDocs \cup WideDocs

RemoteDocs ==
    { << <<Row(<<ThRank, ThSimplified, ThPinyin>>, <<>>),
           Row(<<>>, <<TdOne, TdHanzi, TdDe>>), Row(<<>>, <<TdTwo, TdNone, TdLe>>)>> >>,
      << <<Row(<<ThSimplified>>, <<>>), Row(<<>>, <<TdNested>>), Row(<<>>, <<TdHanzi>>)>> >>,
      << <<Row(<<ThRank, ThPinyin>>, <<>>), Row(<<>>, <<TdOne, TdDe>>)>> >> }

\* command-line URLs: a token is "/" or a run of other characters
Urls ==
    { <<>>,
      <<"/", "/">>,
      <<"Foo_list">>,
      <<"https:", "/", "/", "example.org", "/", "wiki", "/", "Foo_list", "/">>,
      <<"https:", "/", "/", "example.org", "/", "wiki", "/", "Foo_list">>,
      <<"https:", "/", "/", "example.org", "/", "Bar", "/", "/">> }

DefaultDir == "~/Documents"
Dirs == {DefaultDir, "out"}

\* ------------------------------------------------------- file name helpers
\* url.rstrip("/")
RECURSIVE RStripSlash(_)
RStripSlash(s) ==
    IF s = <<>> THEN <<>>
    ELSE IF s[Len(s)] = "/" THEN RStripSlash(SubSeq(s, 1, Len(s) - 1)) ELSE s

\* s.split("/"): always at least one segment, empty segments are kept
RECURSIVE SplitFrom(_, _, _)
SplitFrom(s, cur, acc) ==
    IF s = <<>> THEN Append(acc, cur)
    ELSE IF Head(s) = "/" THEN SplitFrom(Tail(s), <<>>, Append(acc, cur))
    ELSE SplitFrom(Tail(s), Append(cur, Head(s)), acc)

StrSplit(s) == SplitFrom(s, <<>>, <<>>)

\* variant: the last segment without stripping the trailing slashes
DeriveBaseNoStrip(url) ==
    LET parts == StrSplit(url) IN parts[Len(parts)]

\* base = url.rstrip("/").split("/")[-1]
DeriveBase(url) ==
    LET parts == StrSplit(RStripSlash(url)) IN parts[Len(parts)]

\* out_path = out_dir / f"{base}.csv"
OutPath(out_dir, base) == <<out_dir, base \o <<".csv">>>>

\* ------------------------------------------------------------- csv helpers
CsvSpecial == {",", "\"", "\r", "\n", "\r\n"}

RECURSIVE CsvEscape(_)
CsvEscape(text) ==
    IF text = <<>> THEN <<>>
    ELSE IF Head(text) = "\"" THEN <<"\"", "\"">> \o CsvEscape(Tail(text))
    ELSE <<Head(text)>> \o CsvEscape(Tail(text))

\* csv.writer (QUOTE_MINIMAL) formatting one field
CsvField(text) ==
    IF text = <<>> \/ Range(text) \cap CsvSpecial # {}
    THEN <<"\"">> \o CsvEscape(text) \o <<"\"">>
    ELSE text

\* writer.writerow([item]) with newline="": the field and "\r\n"
WriteRow(item) == CsvField(item) \o <<"\r\n">>

RECURSIVE WriteRows(_)
WriteRows(items) ==
    IF items = <<>> THEN <<>> ELSE WriteRow(Head(items)) \o WriteRows(Tail(items))

Bom == <<"BOM">>

\* what the with-block has written after k of the items: the utf-8-sig codec
\* puts the byte-order mark before the first text written
Written(no_header, items, k) ==
    LET text == (IF ~no_header THEN WriteRow(Simplified) ELSE <<>>)
                \o WriteRows(SubSeq(items, 1, k))
    IN IF text = <<>> THEN <<>> ELSE Bom \o text

\* ------------------------------------------------------------------- state
VARIABLES
    bs4,        \* TRUE iff the module-level import of BeautifulSoup succeeded
    dirs,       \* the directories that exist
    files,      \* path |-> content, for the files that exist
    runs,       \* number of invocations of the program so far
    pc,         \* position of the current invocation
    args,       \* <<>> or <<the namespace parse_args returned>>
    base,       \* main's local base
    attempts,   \* the transport attempts of fetch_html, in order
    html,       \* <<>> or <<the document fetch_html returned>>
    ext,        \* <<>> or <<the outcome of extract_simplified>>
    steps,      \* the steps of main performed so far, in order
    err,        \* class of the exception that ended the run, "" if none
    exit_code,  \* <<>> while running, <<n>> once the process has exited
    stderr,     \* lines written to standard error
    stdout,     \* summary lines written to standard output
    files0,     \* files as they were when the current invocation started
    prev        \* <<>> or <<what the invocation just before did, if it succeeded>>

vars == <<bs4, dirs, files, runs, pc, args, base, attempts, html, ext, steps,
          err, exit_code, stderr, stdout, files0, prev>>

env == <<bs4>>
fs == <<dirs, files>>

Put(f, path, content) ==
    [p \in DOMAIN f \cup {path} |-> IF p = path THEN content ELSE f[p]]

out_path == OutPath(args[1].out_dir, base)

Init ==
    /\ bs4 \in BOOLEAN
    /\ dirs = {}
    /\ files = <<>>
    /\ runs = 0
    /\ pc = "idle"
    /\ args = <<>>
    /\ base = <<>>
    /\ attempts = <<>>
    /\ html = <<>>
    /\ ext = <<>>
    /\ steps = <<>>
    /\ err = ""
    /\ exit_code = <<>>
    /\ stderr = <<>>
    /\ stdout = <<>>
    /\ files0 = <<>>
    /\ prev = <<>>

\* ---------------------------------------------------------- process start
Succeeded == exit_code = <<0>> /\ stdout # <<>>

\* A new process: it finds the file system as the last one left it, and its
\* first statement is parse_args(), which returns a namespace or exits.
Invoke(new_args, new_pc, new_err, new_stderr, new_exit) ==
    /\ pc \in {"idle", "exited"}
    /\ runs < MaxRuns
    /\ runs' = runs + 1
    /\ files0' = files
    /\ prev' = IF Succeeded
               THEN <<[path |-> out_path, html |-> html[1], content |-> files[out_path]]>>
               ELSE <<>>
    /\ args' = new_args
    /\ pc' = new_pc
    /\ err' = new_err
    /\ stderr' = new_stderr
    /\ exit_code' = new_exit
    /\ base' = <<>>
    /\ attempts' = <<>>
    /\ html' = <<>>
    /\ ext' = <<>>
    /\ steps' = <<>>
    /\ stdout' = <<>>
    /\ UNCHANGED <<bs4, dirs, files>>

\* variant: exits with status 1 without printing the message
RaiseSilently(kind, msg) ==
    /\ pc' = "exited"
    /\ err' = kind
    /\ stderr' = stderr
    /\ exit_code' = <<1>>

\* the top-level handler: print "Error: <e>" and exit with status 1
Raise(kind, msg) ==
    /\ pc' = "exited"
    /\ err' = kind
    /\ stderr' = Append(stderr, <<"Error: ", msg>>)
    /\ exit_code' = <<1>>

\* ---------------------------------------------------------------- parse_args
\* variant: the usual default of a store_true flag
NoHeaderDefaultFalse == FALSE

\* --no-header is store_true with default=True: True when given, else the default
NoHeaderDefault == TRUE

NoHeaderValue(flag_given) == IF flag_given THEN TRUE ELSE NoHeaderDefault

parse_args_ok ==
    \E url \in Urls, dir \in {<<>>} \cup {<<d>> : d \in Dirs}, flag \in BOOLEAN :
        Invoke(<<[url |-> url,
                  out_dir |-> IF dir = <<>> THEN DefaultDir ELSE dir[1],
                  no_header |-> NoHeaderValue(flag)]>>,
               "mkdir", "", <<>>, <<>>)

\* --url is required: argparse prints the usage and exits with status 2
UsageLines == <<<<"usage: ">>, <<"error: the following arguments are required: --url">>>>

parse_args_usage_error == Invoke(<<>>, "exited", "usage", UsageLines, <<2>>)

\* -h/--help: argparse prints the help and exits with status 0
parse_args_help == Invoke(<<>>, "exited", "", <<>>, <<0>>)

\* ------------------------------------------------------------------- main
\* variant: the directory is not made
main_mkdir_skipped ==
    /\ pc = "mkdir"
    /\ steps' = Append(steps, "mkdir")
    /\ pc' = "base"
    /\ UNCHANGED <<env, fs, runs, args, base, attempts, html, ext, err,
                   exit_code, stderr, stdout, files0, prev>>

\* out_dir.mkdir(parents=True, exist_ok=True)
main_mkdir ==
    /\ pc = "mkdir"
    /\ steps' = Append(steps, "mkdir")
    /\ dirs' = dirs \cup {args[1].out_dir}
    /\ pc' = "base"
    /\ UNCHANGED <<env, files, runs, args, base, attempts, html, ext, err,
                   exit_code, stderr, stdout, files0, prev>>

\* mkdir raises OSError (no permission, a path component is a file)
main_mkdir_fails ==
    /\ pc = "mkdir"
    /\ args[1].out_dir \notin dirs
    /\ steps' = Append(steps, "mkdir")
    /\ Raise("io", "mkdir")
    /\ UNCHANGED <<env, fs, runs, args, base, attempts, html, ext, stdout,
                   files0, prev>>

\* variant: the output file is opened as soon as its name is known
main_base_opens_file ==
    /\ pc = "base"
    /\ steps' = Append(steps, "base")
    /\ base' = DeriveBase(args[1].url)
    /\ IF base' = <<>>
       THEN /\ Raise("naming", MsgNoName)
            /\ files' = files
       ELSE /\ pc' = "fetch"
            /\ files' = Put(files, OutPath(args[1].out_dir, base'), <<>>)
            /\ UNCHANGED <<err, exit_code, stderr>>
    /\ UNCHANGED <<env, dirs, runs, args, attempts, html, ext, stdout, files0, prev>>

\* base = url.rstrip("/").split("/")[-1]; raise if not base
main_base ==
    /\ pc = "base"
    /\ steps' = Append(steps, "base")
    /\ base' = DeriveBase(args[1].url)
    /\ IF base' = <<>>
       THEN Raise("naming", MsgNoName)
       ELSE /\ pc' = "fetch"
            /\ UNCHANGED <<err, exit_code, stderr>>
    /\ UNCHANGED <<env, fs, runs, args, attempts, html, ext, stdout, files0, prev>>

\* ------------------------------------------------------------- fetch_html
PrimaryFailures == {"import_error", "network_error", "http_error"}

Attempt(transport, outcome) ==
    [transport |-> transport, url |-> args[1].url, outcome |-> outcome]

\* try: import requests; requests.get(url); raise_for_status(); return resp.text
fetch_html_requests_ok ==
    /\ pc = "fetch"
    /\ steps' = Append(steps, "fetch")
    /\ attempts' = Append(attempts, Attempt("requests", "ok"))
    /\ \E doc \in RemoteDocs : html' = <<doc>>
    /\ pc' = "extract"
    /\ UNCHANGED <<env, fs, runs, args, base, ext, err, exit_code, stderr,
                   stdout, files0, prev>>

\* variant: a failure of the primary transport is not caught
fetch_html_requests_propagates ==
    /\ pc = "fetch"
    /\ steps' = Append(steps, "fetch")
    /\ \E why \in PrimaryFailures : attempts' = Append(attempts, Attempt("requests", why))
    /\ Raise("fetch", "requests")
    /\ UNCHANGED <<env, fs, runs, args, base, html, ext, stdout, files0, prev>>

\* except Exception: requests is missing, the request fails, or the status is not 2xx
fetch_html_requests_raises ==
    /\ pc = "fetch"
    /\ steps' = Append(steps, "fetch")
    /\ \E why \in PrimaryFailures : attempts' = Append(attempts, Attempt("requests", why))
    /\ pc' = "fallback"
    /\ UNCHANGED <<env, fs, runs, args, base, html, ext, err, exit_code, stderr,
                   stdout, files0, prev>>

\* urlopen(Request(url)); f.read().decode("utf-8", errors="replace")
fetch_html_urlopen_ok ==
    /\ pc = "fallback"
    /\ attempts' = Append(attempts, Attempt("urlopen", "ok"))
    /\ \E doc \in RemoteDocs : html' = <<doc>>
    /\ pc' = "extract"
    /\ UNCHANGED <<env, fs, runs, args, base, ext, steps, err, exit_code, stderr,
                   stdout, files0, prev>>

\* urlopen raises: nothing catches it below the top level
fetch_html_urlopen_raises ==
    /\ pc = "fallback"
    /\ attempts' = Append(attempts, Attempt("urlopen", "network_error"))
    /\ Raise("fetch", "urlopen")
    /\ UNCHANGED <<env, fs, runs, args, base, html, ext, steps, stdout, files0, prev>>

\* simplified = extract_simplified(html)
main_extract ==
    /\ pc = "extract"
    /\ steps' = Append(steps, "extract")
    /\ ext' = <<extract_simplified(bs4, html[1])>>
    /\ IF ext'[1].status = "ok"
       THEN /\ pc' = "open"
            /\ UNCHANGED <<err, exit_code, stderr>>
       ELSE Raise(IF ext'[1].msg = MsgNoBs4 THEN "config" ELSE "extraction", ext'[1].msg)
    /\ UNCHANGED <<env, fs, runs, args, base, attempts, html, stdout, files0, prev>>

\* variant: the file is opened for appending
main_open_append ==
    /\ pc = "open"
    /\ steps' = Append(steps, "open")
    /\ files' = Put(files, out_path,
                    IF out_path \in DOMAIN files THEN files[out_path] ELSE <<>>)
    /\ pc' = "write"
    /\ UNCHANGED <<env, dirs, runs, args, base, attempts, html, ext, err,
                   exit_code, stderr, stdout, files0, prev>>

\* out_path.open("w", newline="", encoding="utf-8-sig"): creates or truncates
main_open ==
    /\ pc = "open"
    /\ steps' = Append(steps, "open")
    /\ files' = Put(files, out_path, <<>>)
    /\ pc' = "write"
    /\ UNCHANGED <<env, dirs, runs, args, base, attempts, html, ext, err,
                   exit_code, stderr, stdout, files0, prev>>

\* open raises OSError: the file is neither created nor truncated
main_open_fails ==
    /\ pc = "open"
    /\ steps' = Append(steps, "open")
    /\ Raise("io", "open")
    /\ UNCHANGED <<env, fs, runs, args, base, attempts, html, ext, stdout,
                   files0, prev>>

\* the with-block: the optional header row, then one row per item
main_write ==
    /\ pc = "write"
    /\ steps' = Append(steps, "write")
    /\ files' = Put(files, out_path,
                    files[out_path]
                    \o Written(args[1].no_header, ext[1].values, Len(ext[1].values)))
    /\ pc' = "report"
    /\ UNCHANGED <<env, dirs, runs, args, base, attempts, html, ext, err,
                   exit_code, stderr, stdout, files0, prev>>

\* a write raises OSError after k of the items: the file is closed as it is
main_write_fails ==
    /\ pc = "write"
    /\ steps' = Append(steps, "write")
    /\ \E k \in 0..(Len(ext[1].values) - 1) :
          files' = Put(files, out_path,
                       files[out_path] \o Written(args[1].no_header, ext[1].values, k))
    /\ Raise("io", "write")
    /\ UNCHANGED <<env, dirs, runs, args, base, attempts, html, ext, stdout,
                   files0, prev>>

\* print(f"Wrote {len(simplified)} rows to {out_path}"); return 0
main_report ==
    /\ pc = "report"
    /\ stdout' = Append(stdout, [count |-> Len(ext[1].values), path |-> out_path])
    /\ pc' = "exited"
    /\ exit_code' = <<0>>
    /\ UNCHANGED <<env, fs, runs, args, base, attempts, html, ext, steps, err,
                   stderr, files0, prev>>

Next ==
    \/ parse_args_ok
    \/ parse_args_usage_error
    \/ parse_args_help
    \/ main_mkdir
    \/ main_mkdir_fails
    \/ main_base
    \/ fetch_html_requests_ok
    \/ fetch_html_requests_raises
    \/ fetch_html_urlopen_ok
    \/ fetch_html_urlopen_raises
    \/ main_extract
    \/ main_open
    \/ main_open_fails
    \/ main_write
    \/ main_write_fails
    \/ main_report

Spec == Init /\ [][Next]_vars

TypeOK ==
    /\ pc \in {"idle", "mkdir", "base", "fetch", "fallback", "extract", "open",
               "write", "report", "exited"}
    /\ runs \in 0..MaxRuns

\* ------------------------------------------- extract_simplified on its own
\* A direct call of extract_simplified on a parsed document drawn from Docs.
InitExtract ==
    /\ bs4 \in BOOLEAN
    /\ html \in {<<d>> : d \in Docs}
    /\ pc = "call"
    /\ dirs = {}
    /\ files = <<>>
    /\ runs = 0
    /\ args = <<>>
    /\ base = <<>>
    /\ attempts = <<>>
    /\ ext = <<>>
    /\ steps = <<>>
    /\ err = ""
    /\ exit_code = <<>>
    /\ stderr = <<>>
    /\ stdout = <<>>
    /\ files0 = <<>>
    /\ prev = <<>>

call_extract_simplified ==
    /\ pc = "call"
    /\ ext' = <<extract_simplified(bs4, html[1])>>
    /\ pc' = IF ext'[1].status = "ok" THEN "returned" ELSE "raised"
    /\ UNCHANGED <<env, fs, runs, args, base, attempts, html, steps, err,
                   exit_code, stderr, stdout, files0, prev>>

NextExtract == call_extract_simplified

SpecExtract == InitExtract /\ [][NextExtract]_vars

\* ================================================================= claims
\* what the claims say, stated without the loops of the code
Label(th) == GetText(th, <<" ">>)

SimplifiedAt(row) == {i \in 1..Len(row.ths) : Label(row.ths[i]) = Simplified}

HeaderRows(table) == {r \in 1..Len(table) : SimplifiedAt(table[r]) # {}}

HasSimplifiedHeader(table) == HeaderRows(table) # {}

Min(S) == CHOOSE x \in S : \A y \in S : x <= y

\* rows of the table that have more than i data cells and a non-empty text at i
DataRows(table, i) ==
    {r \in 1..Len(table) :
        /\ Len(table[r].tds) > i
        /\ GetText(table[r].tds[i + 1], <<>>) # <<>>}

\* the n-th smallest element of a set of numbers
Nth(S, n) == CHOOSE x \in S : Cardinality({y \in S : y <= x}) = n

ExtractCalled == pc \in {"returned", "raised"} /\ bs4

Visited == 1..Len(ext[1].scans)

\* the table loop reached table k and found a header there
Accepted(k) == k \in Visited /\ ext[1].scans[k] # <<>>

Yields(table) ==
    /\ HasSimplifiedHeader(table)
    /\ ScanHeader(table) # <<>>
    /\ CollectColumn(table, ScanHeader(table)[1].header_idx) # <<>>

Qualifying == {k \in 1..Len(html[1]) : Yields(html[1][k])}

\* C1: extract_simplified returns the values of the first table in document
\* order that has a "Simplified" header and yields at least one non-empty
\* value; other tables are skipped; when no table qualifies it raises the
\* extraction error and never returns an empty list.
C1_FirstQualifyingTable ==
    ExtractCalled =>
        IF Qualifying = {}
        THEN /\ pc = "raised"
             /\ ext[1].msg = MsgNoTable
        ELSE /\ pc = "returned"
             /\ ext[1].table = Min(Qualifying)
             /\ ext[1].values =
                   CollectColumn(html[1][Min(Qualifying)],
                                 ScanHeader(html[1][Min(Qualifying)])[1].header_idx)
             /\ ext[1].values # <<>>

\* a headerless table and a table whose column is all empty were both skipped
C1_Witness ==
    /\ ExtractCalled
    /\ pc = "returned"
    /\ ext[1].table = 3
    /\ ~HasSimplifiedHeader(html[1][1])
    /\ HasSimplifiedHeader(html[1][2])

C1_WitnessRaised ==
    /\ ExtractCalled
    /\ pc = "raised"
    /\ \E k \in 1..Len(html[1]) : HasSimplifiedHeader(html[1][k])

\* C2: the returned sequence is, in row order and without deduplication, the
\* text of data cell i of every row of the selected table that has more than i
\* data cells and a non-empty text there; its length is the number of such rows.
C2_ColumnValues ==
    (ExtractCalled /\ pc = "returned") =>
        LET table == html[1][ext[1].table]
            i == ext[1].scans[ext[1].table][1].header_idx
            rows == DataRows(table, i)
        IN /\ Len(ext[1].values) = Cardinality(rows)
           /\ \A n \in 1..Len(ext[1].values) :
                 ext[1].values[n] = GetText(table[Nth(rows, n)].tds[i + 1], <<>>)

\* header [Rank, Simplified, Pinyin]: a row with one data cell is passed over,
\* [1, u7684, de] gives a value, and nothing else does
C2_Witness ==
    /\ ExtractCalled
    /\ pc = "returned"
    /\ ext[1].scans[1][1].header_idx = 1
    /\ ext[1].values = <<<<"u7684">>>>
    /\ \E r \in 1..Len(html[1][1]) :
          /\ html[1][1][r].tds # <<>>
          /\ Len(html[1][1][r].tds) <= 1

\* C9 (as amended): a row without header cells is ignored; a header row is
\* accepted when at least one of its labels equals "Simplified"; the recorded
\* index is the zero-based position of the first such label; the first
\* accepted row ends the scan; a table without an accepted row is not kept.
ExpectedScan(table) ==
    IF HeaderRows(table) = {} THEN <<>>
    ELSE <<[tr |-> Min(HeaderRows(table)),
            header_idx |-> Min(SimplifiedAt(table[Min(HeaderRows(table))])) - 1]>>

C9_HeaderScan ==
    ExtractCalled =>
        /\ \A k \in Visited : ext[1].scans[k] = ExpectedScan(html[1][k])
        /\ ext[1].table # 0 => Accepted(ext[1].table)

\* C9 (as claimed): a header row is accepted only if exactly one of its
\* labels equals "Simplified"; the recorded index is that label's position.
UniqueLabelRows(table) ==
    {r \in 1..Len(table) : Cardinality(SimplifiedAt(table[r])) = 1}

C9_ExactlyOneLabel ==
    ExtractCalled =>
        /\ \A k \in Visited :
              ext[1].scans[k] =
                 IF UniqueLabelRows(html[1][k]) = {} THEN <<>>
                 ELSE <<[tr |-> Min(UniqueLabelRows(html[1][k])),
                         header_idx |->
                            Min(SimplifiedAt(html[1][k][Min(UniqueLabelRows(html[1][k]))])) - 1]>>
        /\ ext[1].table # 0 => Accepted(ext[1].table)

\* the accepted row follows a header row without the label, carries the label
\* twice, and is followed by another row that carries it
C9_Witness ==
    /\ ExtractCalled
    /\ Accepted(1)
    /\ ext[1].scans[1][1].tr = 2
    /\ html[1][1][1].ths # <<>>
    /\ Cardinality(SimplifiedAt(html[1][1][2])) = 2
    /\ Len(html[1][1]) = 3
    /\ SimplifiedAt(html[1][1][3]) # {}

\* ------------------------------------------------------ claims about a run
Exited == pc = "exited"

Parsed == args # <<>>

PipelineErrors == {"config", "fetch", "extraction", "naming", "io"}

ErrorLine == Len(stderr) = 1 /\ Len(stderr[1]) = 2 /\ stderr[1][1] = "Error: "

\* C3 (as claimed): every run ends with exit code 0 when the pipeline succeeds
\* and with 1, after one line "Error: <message>" on standard error, on any
\* error; no other exit code is reachable.
C3_ExitZeroOrOne ==
    Exited =>
        /\ exit_code \in {<<0>>, <<1>>}
        /\ Succeeded => exit_code = <<0>>
        /\ err # "" => exit_code = <<1>> /\ ErrorLine

\* C3 (as amended): a run whose command line parse_args accepts ends with 0
\* exactly when the pipeline succeeds and else with 1 after one line
\* "Error: <message>"; a command line the parser rejects ends with 2 after the
\* usage message, and a request for help ends with 0.
C3_ExitCodes ==
    Exited =>
        IF Parsed
        THEN /\ exit_code \in {<<0>>, <<1>>}
             /\ exit_code = <<0>> <=> Succeeded
             /\ exit_code = <<1>> <=> err \in PipelineErrors
             /\ exit_code = <<0>> => stderr = <<>>
             /\ exit_code = <<1>> => ErrorLine /\ stdout = <<>>
        ELSE \/ exit_code = <<2>> /\ err = "usage" /\ stderr = UsageLines
             \/ exit_code = <<0>> /\ err = "" /\ stderr = <<>> /\ stdout = <<>>

C3_Witness ==
    /\ Exited
    /\ Parsed
    /\ err = "extraction"
    /\ exit_code = <<1>>
    /\ stderr = <<<<"Error: ", MsgNoTable>>>>

\* C4: fetch_html tries the primary transport first; when it returns a body
\* the fallback is never tried; when it raises for any reason the fallback is
\* tried exactly once with the same URL; fetch_html fails iff both fail; no
\* transport is tried twice.
FetchOver == pc \in {"extract", "open", "write", "report"} \/ (Exited /\ "fetch" \in Range(steps))

Failed(n) == attempts[n].outcome # "ok"

C4_FetchFallback ==
    /\ Len(attempts) <= 2
    /\ \A n \in 1..Len(attempts) :
          /\ attempts[n].transport = (IF n = 1 THEN "requests" ELSE "urlopen")
          /\ attempts[n].url = args[1].url
    /\ Len(attempts) = 2 => Failed(1)
    /\ FetchOver =>
          /\ attempts # <<>>
          /\ Failed(1) => Len(attempts) = 2
          /\ err = "fetch" <=> (Failed(1) /\ Failed(2))
          /\ html # <<>> <=> ~Failed(Len(attempts))

C4_Witness ==
    /\ FetchOver
    /\ Len(attempts) = 2
    /\ attempts[1].outcome = "http_error"
    /\ attempts[2].outcome = "ok"
    /\ html # <<>>

\* C5: the output file is opened only after fetch and extraction succeeded: a
\* run that fails with a configuration, naming, fetch or extraction error
\* leaves every file as it was and creates none.
C5_OpenAfterExtract ==
    /\ files # files0 =>
          /\ html # <<>>
          /\ ext # <<>>
          /\ ext[1].status = "ok"
          /\ "open" \in Range(steps)
    /\ (Exited /\ err \in {"config", "naming", "fetch", "extraction"}) => files = files0

\* a file written by the run before is still there after an extraction error
C5_Witness ==
    /\ Exited
    /\ err = "extraction"
    /\ out_path \in DOMAIN files0
    /\ files0[out_path] # <<>>
    /\ files = files0

\* C6: the file name is the last segment of the URL once its trailing slashes
\* are stripped, plus ".csv", in the output directory
NoSegment(url) == \A i \in 1..Len(url) : url[i] = "/"

\* the stretch of the URL after its last "/" that is followed by a non-slash,
\* up to its last non-slash
LastSegment(url) ==
    LET e == CHOOSE i \in 1..Len(url) :
                 url[i] # "/" /\ \A j \in (i + 1)..Len(url) : url[j] = "/"
        b == CHOOSE i \in 1..e : \A j \in i..e : url[j] # "/"
                 /\ (i > 1 => url[i - 1] = "/")
    IN SubSeq(url, b, e)

NameDerived ==
    (Exited /\ Succeeded) =>
        /\ base # <<>>
        /\ base = LastSegment(args[1].url)
        /\ stdout[1].path = <<args[1].out_dir, LastSegment(args[1].url) \o <<".csv">>>>
        /\ stdout[1].path \in DOMAIN files

MkdirFailed == err = "io" /\ steps = <<"mkdir">>

\* C6 (as claimed): ...; the segment is never empty on a successful run, and a
\* run whose URL has no non-empty segment fails with the naming error and
\* writes no file.
C6_NamingError ==
    /\ NameDerived
    /\ (Exited /\ Parsed /\ NoSegment(args[1].url)) =>
          /\ err = "naming"
          /\ files = files0

\* C6 (as amended): ...; a run whose URL has no non-empty segment writes no
\* file, and fails with the naming error once the output directory is made.
C6_FileName ==
    /\ NameDerived
    /\ (Exited /\ Parsed /\ NoSegment(args[1].url)) =>
          /\ files = files0
          /\ ~MkdirFailed => err = "naming"
    /\ err = "naming" => NoSegment(args[1].url)

\* https://example.org/wiki/Foo_list/ gives Foo_list.csv
C6_Witness ==
    /\ Exited
    /\ Succeeded
    /\ args[1].url = <<"https:", "/", "/", "example.org", "/", "wiki", "/", "Foo_list", "/">>
    /\ out_path = <<args[1].out_dir, <<"Foo_list", ".csv">>>>
    /\ out_path \in DOMAIN files

C6_WitnessNoSegment ==
    /\ Exited
    /\ err = "naming"
    /\ args[1].url = <<"/", "/">>

\* C7: a second run in succession on the same path and the same page leaves
\* the file with exactly the content the first run left: it truncates and
\* rewrites, it does not append.
SameAsBefore ==
    /\ prev # <<>>
    /\ prev[1].path = out_path
    /\ prev[1].html = html[1]

C7_Idempotent ==
    (Exited /\ Succeeded /\ SameAsBefore) => files[out_path] = prev[1].content

C7_Witness ==
    /\ Exited
    /\ Succeeded
    /\ SameAsBefore
    /\ runs = 2
    /\ Len(ext[1].values) = 2

\* C8: the header-suppression flag is true for every command line, so a
\* successful run writes no header line: the file holds one record per
\* extracted value, in order, and the reported count is the number of records.
RECURSIVE CsvParse(_, _, _, _, _)
CsvParse(s, quoted, field, rec, recs) ==
    IF s = <<>>
    THEN IF field # <<>> \/ rec # <<>> THEN Append(recs, Append(rec, field)) ELSE recs
    ELSE IF quoted
         THEN IF Head(s) = "\""
              THEN IF Len(s) >= 2 /\ s[2] = "\""
                   THEN CsvParse(Tail(Tail(s)), TRUE, Append(field, "\""), rec, recs)
                   ELSE CsvParse(Tail(s), FALSE, field, rec, recs)
              ELSE CsvParse(Tail(s), TRUE, Append(field, Head(s)), rec, recs)
         ELSE IF Head(s) = "\"" THEN CsvParse(Tail(s), TRUE, field, rec, recs)
         ELSE IF Head(s) = "," THEN CsvParse(Tail(s), FALSE, <<>>, Append(rec, field), recs)
         ELSE IF Head(s) = "\r\n"
              THEN CsvParse(Tail(s), FALSE, <<>>, <<>>, Append(recs, Append(rec, field)))
         ELSE CsvParse(Tail(s), FALSE, Append(field, Head(s)), rec, recs)

\* the records a CSV reader finds in a file read as utf-8-sig
CsvRead(content) ==
    CsvParse(IF content # <<>> /\ Head(content) = "BOM" THEN Tail(content) ELSE content,
             FALSE, <<>>, <<>>, <<>>)

C8_NoHeaderLine ==
    /\ Parsed => args[1].no_header
    /\ (Exited /\ Succeeded) =>
          /\ CsvRead(files[out_path]) =
                [n \in 1..Len(ext[1].values) |-> <<ext[1].values[n]>>]
          /\ stdout[1].count = Len(CsvRead(files[out_path]))

\* two values, one of them quoted because of its comma
C8_Witness ==
    /\ Exited
    /\ Succeeded
    /\ ext[1].values = <<<<"x", "y", ",", "z">>, <<"u7684">>>>
    /\ Len(CsvRead(files[out_path])) = 2
    /\ stdout[1].count = 2

\* C10: main makes the output directory, derives the file name, fetches,
\* extracts, then opens and writes the file, in this order
MainOrder == <<"mkdir", "base", "fetch", "extract", "open", "write">>

InOrder ==
    /\ Len(steps) <= Len(MainOrder)
    /\ steps = SubSeq(MainOrder, 1, Len(steps))
    /\ attempts # <<>> => "fetch" \in Range(steps)
    /\ err = "naming" => attempts = <<>>

\* C10 (as claimed): the output directory exists after any run that got past
\* argument parsing, and a run that fails with the naming error fetches nothing.
C10_DirAlwaysExists ==
    /\ InOrder
    /\ (Exited /\ Parsed) => args[1].out_dir \in dirs

\* C10 (as amended): the output directory exists after any run that got past
\* argument parsing unless making it failed, ...
C10_StepOrder ==
    /\ InOrder
    /\ (Exited /\ Parsed /\ ~MkdirFailed) => args[1].out_dir \in dirs
    /\ (pc \notin {"idle", "mkdir", "exited"}) => args[1].out_dir \in dirs

C10_Witness ==
    /\ Exited
    /\ err = "naming"
    /\ steps = <<"mkdir", "base">>
    /\ attempts = <<>>
    /\ args[1].out_dir \in dirs
    /\ runs = 1

====
